---- MODULE Spec2Model ----
(***************************************************************************)
(* A model of the PID derivation / mismatch / comparison core of the       *)
(* Toughbook tracker: calculateExpectedPid and isPidMismatch               *)
(* (src/lib/utils.ts), sanitizeAlphanumeric (src/lib/security.ts) and the  *)
(* parsing and comparison of the PID comparison modal                      *)
(* (src/components/pid-comparison-modal.tsx).                              *)
(*                                                                         *)
(* A JavaScript string is a sequence of one-character strings.  The value  *)
(* undefined is the one-element sequence Undefined, whose element is no    *)
(* character, so that it compares with every string and equals none.       *)
(***************************************************************************)
EXTENDS Integers, Sequences, FiniteSets, TLC

VARIABLES
    pc,          \* position of the specification in progress
    sn,          \* device.serial_number handed to the deriver
    pid,         \* device.pid_number handed to the deriver
    expected,    \* const expected = calculateExpectedPid(device.serial_number)
    mismatch,    \* const mismatch = isPidMismatch(device.serial_number, device.pid_number)
    token,       \* the argument of normalizePid
    normalized,  \* normalizePid(token), and normalizePid of that
    pidList,     \* the textarea's text (useState "pidList")
    inventory,   \* the inventory prop of the modal: a sequence of devices
    parsed,      \* the memo parsedPids
    result,      \* the memo comparison: [found, missing, foundDevices]
    db,          \* whether Firestore is configured (db is set)
    open,        \* isPidComparisonModalOpen
    isAddingDevices, \* useState "isAddingDevices" of the modal
    call,        \* the latest onAddDevices call: its arguments and position
    store,       \* the documents of the collection "toughbooks"
    closeTimers, \* pending setTimeout(() => onOpenChange(false), 1000)
    toasts,      \* the toasts of the latest add or save
    emailPid,    \* expectedPid of the CAPWIN email
    rateLimitStore, \* the Map rateLimitStore: key -> entry
    now,         \* Date.now()
    rateLimitInfo,  \* the latest result of the limiter (useState of LoginForm)
    loading,     \* useState "loading" of LoginForm: a sign-in is in flight
    awaited,     \* sign-ins awaited by forms that have been unmounted since
    retryCountdown, \* when the countdown of LoginForm ends; 0 for null
    writes       \* the writes that handlers of the dashboard await, oldest first

dashboardVars == <<db, open, isAddingDevices, call, store, closeTimers, toasts>>

limiterVars == <<rateLimitStore, now, rateLimitInfo, loading, awaited,
                 retryCountdown>>

vars == <<pc, sn, pid, expected, mismatch, token, normalized,
          pidList, inventory, parsed, result, dashboardVars, emailPid,
          limiterVars, writes>>

----------------------------------------------------------------------------
(* Bounds of the model. *)

MaxSerialLen == 5

MaxPidLen == 5

MaxTokenLen == 3

MaxTextLen == 4

MaxPasteLen == 4

MaxInventory == 2

MaxAddLines == 2

MaxStore == 3

MaxSaved == 2

MaxOriPending == 1

MaxCloseTimers == 2

\* const CHUNK_SIZE = 450, scaled to the payloads of the model so that a
\* payload spans several batches.
CHUNK_SIZE == 1

MaxStoredPidLen == 3

\* windowMs: 15 * 60 * 1000 and blockDurationMs: 30 * 60 * 1000, scaled to
\* ticks of the clock of the model, the block twice the window as in the
\* source.
windowMs == 2

blockDurationMs == 4

MaxTime == 7

MaxAwaited == 1

----------------------------------------------------------------------------
(* Strings. *)

Undefined == <<"undefined">>

RECURSIVE StringsUpTo(_, _)
StringsUpTo(chars, n) ==
    IF n = 0 THEN {<<>>}
    ELSE LET shorter == StringsUpTo(chars, n - 1)
         IN  shorter \cup {Append(s, c) : s \in shorter, c \in chars}

\* s.substring(k) for 0 <= k: the characters of s from offset k to the end.
substring(s, k) ==
    IF k >= Len(s) THEN <<>> ELSE SubSeq(s, k + 1, Len(s))

\* !s for a string-or-undefined s: undefined and "" are falsy.
Falsy(s) == s = Undefined \/ s = <<>>

----------------------------------------------------------------------------
(* src/lib/utils.ts *)

PidPrefix == <<"Z", "1", "0", "0">>

MinSerialLen == 5

\* maxAttempts: 5 of defaultConfig and of RATE_LIMIT_CONFIG
maxAttempts == 5

PrefixOffset == 4

\* A deriver whose length threshold is the offset: a serial of exactly 4
\* characters yields the prefix alone.
calculateExpectedPid_threshold4(s) ==
    IF Falsy(s) \/ Len(s) < PrefixOffset THEN <<>>
    ELSE PidPrefix \o substring(s, PrefixOffset)

\* A deriver that guards only against the missing serial, not the short one.
calculateExpectedPid_noLengthGuard(s) ==
    IF Falsy(s) THEN <<>>
    ELSE PidPrefix \o substring(s, PrefixOffset)

\* A deriver that drops 3 characters instead of 4.
calculateExpectedPid_offset3(s) ==
    IF Falsy(s) \/ Len(s) < MinSerialLen THEN <<>>
    ELSE PidPrefix \o substring(s, PrefixOffset - 1)

calculateExpectedPid(s) ==
    IF Falsy(s) \/ Len(s) < MinSerialLen THEN <<>>
    ELSE PidPrefix \o substring(s, PrefixOffset)

\* A mismatch test that forgets the guard on the PID.
isPidMismatch_noPidGuard(s, p) ==
    IF Falsy(s) THEN FALSE
    ELSE calculateExpectedPid(s) # p

\* A mismatch test that reports nothing when no PID can be derived.
isPidMismatch_skipUnderivable(s, p) ==
    IF Falsy(s) \/ Falsy(p) THEN FALSE
    ELSE LET e == calculateExpectedPid(s)
         IN  e # <<>> /\ e # p

isPidMismatch(s, p) ==
    IF Falsy(s) \/ Falsy(p) THEN FALSE
    ELSE LET e == calculateExpectedPid(s)
         IN  e # p

----------------------------------------------------------------------------
(* src/lib/security.ts, and normalizePid of the PID comparison modal. *)

LowerLetters ==
    <<"a", "b", "c", "d", "e", "f", "g", "h", "i", "j", "k", "l", "m",
      "n", "o", "p", "q", "r", "s", "t", "u", "v", "w", "x", "y", "z">>

UpperLetters ==
    <<"A", "B", "C", "D", "E", "F", "G", "H", "I", "J", "K", "L", "M",
      "N", "O", "P", "Q", "R", "S", "T", "U", "V", "W", "X", "Y", "Z">>

DigitChars == {"0", "1", "2", "3", "4", "5", "6", "7", "8", "9"}

Range(f) == {f[i] : i \in DOMAIN f}

\* The characters String.prototype.trim removes that the model's inputs use.
WhiteSpace == {" ", "\t", "\n", "\r"}

\* The character class [a-zA-Z0-9-_] of the sanitizer's regular expression.
AlphanumericClass ==
    Range(LowerLetters) \cup Range(UpperLetters) \cup DigitChars \cup {"-", "_"}

\* String.prototype.toUpperCase on one character: the ASCII letters, and the
\* one non-ASCII letter the model's inputs use.
UpperCaseOf ==
    [c \in Range(LowerLetters) |->
        UpperLetters[CHOOSE i \in DOMAIN LowerLetters : LowerLetters[i] = c]]

toUpperCaseChar(c) ==
    IF c \in DOMAIN UpperCaseOf
    THEN UpperCaseOf[c]
    ELSE IF c = "é" THEN "É" ELSE c

toUpperCase(s) == [i \in 1..Len(s) |-> toUpperCaseChar(s[i])]

RECURSIVE trimStart(_)
trimStart(s) ==
    IF s # <<>> /\ Head(s) \in WhiteSpace THEN trimStart(Tail(s)) ELSE s

RECURSIVE trimEnd(_)
trimEnd(s) ==
    IF s # <<>> /\ s[Len(s)] \in WhiteSpace
    THEN trimEnd(SubSeq(s, 1, Len(s) - 1))
    ELSE s

trim(s) == trimEnd(trimStart(s))

\* input.replace(/[^a-zA-Z0-9-_]/g, ""): every character outside the class
\* is removed, scanning from the left.
RECURSIVE removeNonAlphanumeric(_)
removeNonAlphanumeric(s) ==
    IF s = <<>> THEN <<>>
    ELSE IF Head(s) \in AlphanumericClass
         THEN <<Head(s)>> \o removeNonAlphanumeric(Tail(s))
         ELSE removeNonAlphanumeric(Tail(s))

\* The same replacement without the g flag: only the first match is removed.
RECURSIVE removeFirstNonAlphanumeric(_)
removeFirstNonAlphanumeric(s) ==
    IF s = <<>> THEN <<>>
    ELSE IF Head(s) \in AlphanumericClass
         THEN <<Head(s)>> \o removeFirstNonAlphanumeric(Tail(s))
         ELSE Tail(s)

\* A sanitizer whose replacement lacks the g flag.
sanitizeAlphanumeric_firstOnly(input) ==
    IF Falsy(input) THEN <<>>
    ELSE toUpperCase(removeFirstNonAlphanumeric(input))

\* A sanitizer that forgets to upper-case.
sanitizeAlphanumeric_noUpper(input) ==
    IF Falsy(input) THEN <<>>
    ELSE removeNonAlphanumeric(input)

sanitizeAlphanumeric(input) ==
    IF Falsy(input) THEN <<>>
    ELSE toUpperCase(removeNonAlphanumeric(input))

\* A normalization that trims and does nothing else.
normalizePid_trimOnly(p) == trim(p)

normalizePid(p) == sanitizeAlphanumeric(trim(p))

----------------------------------------------------------------------------
(* src/components/pid-comparison-modal.tsx: the memos parsedPids and         *)
(* comparison.                                                               *)

\* The character class [\n,;] of the split.
Separators == {"\n", ",", ";"}

RECURSIVE skipSeparators(_)
skipSeparators(s) ==
    IF s # <<>> /\ Head(s) \in Separators THEN skipSeparators(Tail(s)) ELSE s

\* String.prototype.split(/[\n,;]+/): the pieces between the maximal runs of
\* separators; a run at either end leaves an empty piece there, and a string
\* without separators is its own single piece.
RECURSIVE splitScan(_, _)
splitScan(rest, piece) ==
    IF rest = <<>> THEN <<piece>>
    ELSE IF Head(rest) \in Separators
         THEN <<piece>> \o splitScan(skipSeparators(rest), <<>>)
         ELSE splitScan(Tail(rest), Append(piece, Head(rest)))

split(s) == splitScan(s, <<>>)

\* pieces.map(pid => normalizePid(pid))
mapNormalizePid(pieces) == [i \in 1..Len(pieces) |-> normalizePid(pieces[i])]

NonEmpty(s) == Len(s) > 0

\* The first occurrence of every element, in order.
RECURSIVE unique(_)
unique(s) ==
    IF s = <<>> THEN <<>>
    ELSE LET init == unique(SubSeq(s, 1, Len(s) - 1))
             last == s[Len(s)]
         IN  IF \E i \in 1..Len(init) : init[i] = last THEN init
             ELSE Append(init, last)

\* A parser that deduplicates the identifiers.
parsedPids_deduplicated(text) ==
    IF trim(text) = <<>> THEN <<>>
    ELSE unique(SelectSeq(mapNormalizePid(split(text)), NonEmpty))

\* A parser that forgets to drop the empty tokens.
parsedPids_keepEmpty(text) ==
    IF trim(text) = <<>> THEN <<>>
    ELSE mapNormalizePid(split(text))

parsedPids(text) ==
    IF trim(text) = <<>> THEN <<>>
    ELSE SelectSeq(mapNormalizePid(split(text)), NonEmpty)

NoComparison == [found |-> <<>>, missing |-> <<>>, foundDevices |-> <<>>]

\* The guard of the index: device.pid_number && device.pid_number.trim().
HasPid(device) ==
    ~Falsy(device.pid_number) /\ trim(device.pid_number) # <<>>

\* A map whose set keeps the entry a key already has.
mapSet_keepFirst(m, key, value) ==
    [k \in DOMAIN m \cup {key} |-> IF k \in DOMAIN m THEN m[k] ELSE value]

\* Map.prototype.set: the entry of the key is added or overwritten.
mapSet(m, key, value) ==
    [k \in DOMAIN m \cup {key} |-> IF k = key THEN value ELSE m[k]]

\* inventory.forEach(device => ... inventoryPids.set(...)), onto the map m.
RECURSIVE indexInventory(_, _)
indexInventory(devices, m) ==
    IF devices = <<>> THEN m
    ELSE LET device == Head(devices)
         IN  indexInventory(
                 Tail(devices),
                 IF HasPid(device)
                 THEN mapSet(m, normalizePid(device.pid_number), device)
                 ELSE m)

EmptyMap == [k \in {} |-> k]

\* The index keyed by the stored PID as it is, not normalized.
RECURSIVE indexInventoryRaw(_, _)
indexInventoryRaw(devices, m) ==
    IF devices = <<>> THEN m
    ELSE LET device == Head(devices)
         IN  indexInventoryRaw(
                 Tail(devices),
                 IF HasPid(device)
                 THEN mapSet(m, device.pid_number, device)
                 ELSE m)

\* An index that forgets to normalize its keys.
inventoryPids_rawKeys(devices) == indexInventoryRaw(devices, EmptyMap)

inventoryPids(devices) == indexInventory(devices, EmptyMap)

\* parsedPids.forEach(pid => ...), onto the three arrays of acc.
RECURSIVE classify(_, _, _)
classify(pids, m, acc) ==
    IF pids = <<>> THEN acc
    ELSE LET p == Head(pids)
         IN  classify(
                 Tail(pids), m,
                 IF p \in DOMAIN m
                 THEN [acc EXCEPT !.found = Append(@, p),
                                  !.foundDevices = Append(@, m[p])]
                 ELSE [acc EXCEPT !.missing = Append(@, p)])

\* The same loop reporting a found identifier once, however often pasted.
RECURSIVE classifyOnce(_, _, _)
classifyOnce(pids, m, acc) ==
    IF pids = <<>> THEN acc
    ELSE LET p == Head(pids)
         IN  classifyOnce(
                 Tail(pids), m,
                 IF p \in DOMAIN m
                 THEN IF \E i \in 1..Len(acc.found) : acc.found[i] = p
                      THEN acc
                      ELSE [acc EXCEPT !.found = Append(@, p),
                                       !.foundDevices = Append(@, m[p])]
                 ELSE [acc EXCEPT !.missing = Append(@, p)])

\* The same loop pushing the device of a found identifier once.
RECURSIVE classifyDeviceOnce(_, _, _)
classifyDeviceOnce(pids, m, acc) ==
    IF pids = <<>> THEN acc
    ELSE LET p == Head(pids)
         IN  classifyDeviceOnce(
                 Tail(pids), m,
                 IF p \in DOMAIN m
                 THEN [acc EXCEPT
                          !.found = Append(@, p),
                          !.foundDevices =
                              IF \E i \in 1..Len(@) : @[i] = m[p]
                              THEN @ ELSE Append(@, m[p])]
                 ELSE [acc EXCEPT !.missing = Append(@, p)])

\* A comparison that lists the device of a repeated identifier once.
comparison_deviceOnce(pids, devices) ==
    IF Len(pids) = 0 THEN NoComparison
    ELSE classifyDeviceOnce(pids, inventoryPids(devices), NoComparison)

\* A comparison that reports each found identifier once.
comparison_foundOnce(pids, devices) ==
    IF Len(pids) = 0 THEN NoComparison
    ELSE classifyOnce(pids, inventoryPids(devices), NoComparison)

comparison(pids, devices) ==
    IF Len(pids) = 0 THEN NoComparison
    ELSE classify(pids, inventoryPids(devices), NoComparison)

----------------------------------------------------------------------------
(* The deriver applied to one device row (inventory-dashboard.tsx). *)

SerialChars == {"Z", "1", "0"}

PidChars == {"Z", "z", "1", "0"}

SerialInputs == {Undefined} \cup StringsUpTo(SerialChars, MaxSerialLen)

PidInputs == {Undefined} \cup StringsUpTo(PidChars, MaxPidLen)

NormalizerIdle ==
    /\ token = <<>>
    /\ normalized = <<>>

DeriverIdle ==
    /\ sn = <<>>
    /\ pid = <<>>
    /\ expected = <<>>
    /\ mismatch = FALSE

NoCall == [status |-> "none"]

\* No write of the dashboard is awaited.
NoWrites == <<>>

\* No entry in the limiter, no result yet, no sign-in in flight.
LimiterIdle ==
    /\ rateLimitStore = [key \in {} |-> 0]
    /\ now = 0
    /\ rateLimitInfo = [blocked |-> FALSE, remainingAttempts |-> 0]
    /\ loading = FALSE
    /\ awaited = 0
    /\ retryCountdown = 0

DashboardIdle ==
    /\ db = TRUE
    /\ open = TRUE
    /\ isAddingDevices = FALSE
    /\ call = NoCall
    /\ store = <<>>
    /\ closeTimers = 0
    /\ toasts = <<>>
    /\ emailPid = <<>>
    /\ writes = NoWrites

ReconcilerIdle ==
    /\ pidList = <<>>
    /\ inventory = <<>>
    /\ parsed = <<>>
    /\ result = NoComparison

InitDeriver ==
    /\ pc = "row"
    /\ sn \in SerialInputs
    /\ pid \in PidInputs
    /\ expected = <<>>
    /\ mismatch = FALSE
    /\ NormalizerIdle
    /\ ReconcilerIdle
    /\ DashboardIdle
    /\ LimiterIdle

\* One row of the table: both derived values of the device.
RenderRow ==
    /\ pc = "row"
    /\ mismatch' = isPidMismatch(sn, pid)
    /\ expected' = calculateExpectedPid(sn)
    /\ pc' = "rendered"
    /\ UNCHANGED <<sn, pid, token, normalized, pidList, inventory, parsed, result>>
    /\ UNCHANGED <<dashboardVars, emailPid, limiterVars, writes>>

NextDeriver == RenderRow

SpecDeriver == InitDeriver /\ [][NextDeriver]_vars

Rendered == pc = "rendered"

\* C1: for every serial number that is undefined, empty or shorter than 5
\* characters the derived identifier is the empty string (and the derivation
\* is defined: it yields a string for every such input).
C1_ShortSerialGivesEmpty ==
    Rendered /\ (sn = Undefined \/ sn = <<>> \/ Len(sn) < 5)
        => expected = <<>>

C1_Witness ==
    /\ Rendered
    /\ sn # Undefined
    /\ Len(sn) \in 1..4
    /\ expected = <<>>

\* C2: for every serial number of 5 characters or more the derived identifier
\* is "Z100" followed by the serial from offset 4: same length as the serial,
\* starting with Z100, agreeing with the serial at every position from 4 on.
C2_LongSerialGivesPrefixAndSuffix ==
    Rendered /\ sn # Undefined /\ Len(sn) >= 5
        => /\ expected = <<"Z", "1", "0", "0">> \o SubSeq(sn, 5, Len(sn))
           /\ Len(expected) = Len(sn)
           /\ SubSeq(expected, 1, 4) = <<"Z", "1", "0", "0">>
           /\ \A i \in 5..Len(sn) : expected[i] = sn[i]

C2_Witness ==
    /\ Rendered
    /\ sn = <<"0", "1", "Z", "Z", "1">>
    /\ expected = <<"Z", "1", "0", "0", "1">>

\* C3 as claimed: a serial number of exactly 4 characters yields the prefix
\* alone, "Z100".
C3_Claimed_Length4GivesPrefix ==
    Rendered /\ sn # Undefined /\ Len(sn) = 4
        => expected = <<"Z", "1", "0", "0">>

\* C3 as amended: a serial number of exactly 4 characters falls under the
\* shorter-than-5 rule and yields the empty string, never the prefix alone;
\* the shortest serial with a derived identifier has 5 characters.
C3_Length4GivesEmpty ==
    /\ Rendered /\ sn # Undefined /\ Len(sn) = 4 => expected = <<>>
    /\ Rendered => expected # <<"Z", "1", "0", "0">>

C3_Witness ==
    /\ Rendered
    /\ sn = <<"Z", "1", "0", "0">>
    /\ expected = <<>>

\* C4: the mismatch flag is false whenever the serial number or the PID is
\* empty or undefined, whatever the other argument is.
C4_NoMismatchWithoutBothValues ==
    Rendered /\ (sn = Undefined \/ sn = <<>> \/ pid = Undefined \/ pid = <<>>)
        => mismatch = FALSE

\* A serial with a derived identifier and no PID: the two differ, and no
\* mismatch is reported.
C4_Witness ==
    /\ Rendered
    /\ sn # Undefined /\ Len(sn) >= 5
    /\ pid \in {Undefined, <<>>}
    /\ expected # <<>>
    /\ mismatch = FALSE

\* C5: for a non-empty serial number and a non-empty PID the mismatch flag is
\* true exactly when the derived identifier differs from the PID, character
\* for character and case-sensitively; so a non-empty serial shorter than 5
\* is a mismatch against every non-empty PID.
C5_MismatchIffExpectedDiffers ==
    Rendered /\ sn # Undefined /\ sn # <<>> /\ pid # Undefined /\ pid # <<>>
        => /\ mismatch = (expected # pid)
           /\ mismatch = ~( /\ Len(expected) = Len(pid)
                            /\ \A i \in 1..Len(pid) : expected[i] = pid[i] )
           /\ Len(sn) < 5 => mismatch = TRUE

\* The PID differs from the derived identifier in case only.
C5_Witness ==
    /\ Rendered
    /\ sn = <<"0", "0", "0", "0", "Z">>
    /\ pid = <<"z", "1", "0", "0", "Z">>
    /\ expected = <<"Z", "1", "0", "0", "Z">>
    /\ mismatch = TRUE

----------------------------------------------------------------------------
(* normalizePid applied to one token, and to its own result. *)

TokenChars == {"a", "Z", "1", "-", "_", " ", "\n", ",", "!", "é"}

TokenInputs == StringsUpTo(TokenChars, MaxTokenLen)

InitNormalize ==
    /\ pc = "token"
    /\ token \in TokenInputs
    /\ normalized = <<>>
    /\ DeriverIdle
    /\ ReconcilerIdle
    /\ DashboardIdle
    /\ LimiterIdle

Normalize ==
    /\ pc = "token"
    /\ normalized' = normalizePid(token)
    /\ pc' = "normalized"
    /\ UNCHANGED <<token, sn, pid, expected, mismatch,
                   pidList, inventory, parsed, result>>
    /\ UNCHANGED <<dashboardVars, emailPid, limiterVars, writes>>

\* The result is fed back: token holds the first result, normalized the second.
NormalizeAgain ==
    /\ pc = "normalized"
    /\ token' = normalized
    /\ normalized' = normalizePid(normalized)
    /\ pc' = "renormalized"
    /\ UNCHANGED <<sn, pid, expected, mismatch,
                   pidList, inventory, parsed, result>>
    /\ UNCHANGED <<dashboardVars, emailPid, limiterVars, writes>>

NextNormalize == Normalize \/ NormalizeAgain

SpecNormalize == InitNormalize /\ [][NextNormalize]_vars

\* The characters a normalized identifier may contain.
NormalAlphabet == Range(UpperLetters) \cup DigitChars \cup {"-", "_"}

\* The positions of a string that hold an ASCII letter, a digit, a hyphen or
\* an underscore.
KeptPositions(s) ==
    {i \in 1..Len(s) :
        \/ \E k \in 1..26 : s[i] \in {LowerLetters[k], UpperLetters[k]}
        \/ s[i] \in DigitChars
        \/ s[i] \in {"-", "_"}}

\* C6: normalize removes every character that is not a letter (a-z, A-Z), a
\* digit, a hyphen or an underscore, leading and trailing whitespace included,
\* and upper-cases what remains, in order; it is defined on every string, its
\* output has only upper-case letters, digits, hyphens and underscores, and
\* the empty string gives the empty string.
C6_NormalizeKeepsAndUppercases ==
    pc = "normalized"
        => LET kept == KeptPositions(token)
               \* the i-th kept position, counting from the left
               at(i) == CHOOSE p \in kept :
                            Cardinality({q \in kept : q < p}) = i - 1
           IN  /\ Len(normalized) = Cardinality(kept)
               /\ \A i \in 1..Len(normalized) :
                      /\ normalized[i] \in NormalAlphabet
                      /\ \/ normalized[i] = token[at(i)]
                         \/ \E k \in 1..26 :
                               /\ token[at(i)] = LowerLetters[k]
                               /\ normalized[i] = UpperLetters[k]
               /\ token = <<>> => normalized = <<>>

\* Whitespace around, a symbol and a non-ASCII letter inside, a lower-case
\* letter upper-cased.
C6_Witness ==
    /\ pc = "normalized"
    /\ token \in {<<" ", "a", "\n">>, <<"a", "!", "1">>, <<"é", "-", "a">>}
    /\ normalized \in {<<"A">>, <<"A", "1">>, <<"-", "A">>}

\* C7: normalize is idempotent: normalizing a normalized string returns it.
C7_NormalizeIdempotent ==
    pc = "renormalized" => normalized = token

\* A first result fed back and returned as it is.
C7_Witness ==
    /\ pc = "renormalized"
    /\ token = <<"A", "1">>
    /\ normalized = <<"A", "1">>

----------------------------------------------------------------------------
(* parsedPids applied to one pasted text. *)

TextChars == {"a", "Z", "1", "\n", ",", ";", " ", "!"}

TextInputs == StringsUpTo(TextChars, MaxTextLen)

InitParse ==
    /\ pc = "text"
    /\ pidList \in TextInputs
    /\ inventory = <<>>
    /\ parsed = <<>>
    /\ result = NoComparison
    /\ DeriverIdle
    /\ NormalizerIdle
    /\ DashboardIdle
    /\ LimiterIdle

Parse ==
    /\ pc = "text"
    /\ parsed' = parsedPids(pidList)
    /\ pc' = "parsed"
    /\ UNCHANGED <<sn, pid, expected, mismatch, token, normalized,
                   pidList, inventory, result>>
    /\ UNCHANGED <<dashboardVars, emailPid, limiterVars, writes>>

NextParse == Parse

SpecParse == InitParse /\ [][NextParse]_vars

\* The positions where a maximal run of non-separator characters starts.
PieceStarts(text) ==
    {i \in 1..Len(text) :
        /\ text[i] \notin {"\n", ",", ";"}
        /\ i = 1 \/ text[i - 1] \in {"\n", ",", ";"}}

\* The maximal run of non-separator characters that starts at position i.
PieceAt(text, i) ==
    LET last == CHOOSE j \in i..Len(text) :
                    /\ \A k \in i..j : text[k] \notin {"\n", ",", ";"}
                    /\ j = Len(text) \/ text[j + 1] \in {"\n", ",", ";"}
    IN  SubSeq(text, i, last)

\* C8: the parsed list is the pieces of the text between the maximal runs of
\* newlines, commas and semicolons, each normalized, without those that
\* normalize to the empty string: in input order, with repetitions kept, and
\* with no empty token.
C8_ParseSplitsNormalizesAndDropsEmpty ==
    pc = "parsed"
        => LET survivors == {i \in PieceStarts(pidList) :
                                normalizePid(PieceAt(pidList, i)) # <<>>}
               nth(k) == CHOOSE i \in survivors :
                             Cardinality({j \in survivors : j < i}) = k - 1
           IN  /\ Len(parsed) = Cardinality(survivors)
               /\ \A k \in 1..Len(parsed) :
                      /\ parsed[k] = normalizePid(PieceAt(pidList, nth(k)))
                      /\ parsed[k] # <<>>

\* An identifier pasted twice, around a piece that normalizes to nothing.
C8_Witness ==
    /\ pc = "parsed"
    /\ pidList \in {<<"a", ",", "!", ";">> \o <<"a">>,
                    <<"a", ";", "a">>, <<"a", "\n", " ", "A">>}
    /\ Len(parsed) = 2
    /\ parsed[1] = parsed[2]

\* C9: a text that is empty, or made of whitespace only, or of whitespace
\* and separators only, parses to the empty list.
C9_BlankTextParsesToNothing ==
    pc = "parsed"
        /\ (\A i \in 1..Len(pidList) :
                pidList[i] \in {" ", "\t", "\n", "\r", ",", ";"})
        => parsed = <<>>

\* Whitespace between separators: the text is not blank after trimming.
C9_Witness ==
    /\ pc = "parsed"
    /\ pidList = <<",", " ", ";">>
    /\ parsed = <<>>

----------------------------------------------------------------------------
(* The PID comparison modal: the text is edited and inventory snapshots    *)
(* arrive; every render recomputes the memos whose inputs changed.         *)

PasteChars == {"a", "b", ",", " "}

InventoryPidNumbers == {Undefined, <<" ">>, <<"A">>, <<"a", " ">>, <<"B">>}

DeviceIds == 1..MaxInventory

Init ==
    /\ pc = "modal"
    /\ pidList = <<>>
    /\ inventory = <<>>
    /\ parsed = <<>>
    /\ result = NoComparison
    /\ DeriverIdle
    /\ NormalizerIdle
    /\ DashboardIdle
    /\ LimiterIdle

\* onChange of the textarea, then the render: both memos are recomputed.
SetPidList(text) ==
    /\ pidList' = text
    /\ parsed' = parsedPids(text)
    /\ result' = comparison(parsedPids(text), inventory)
    /\ UNCHANGED <<pc, sn, pid, expected, mismatch, token, normalized, inventory>>
    /\ UNCHANGED <<dashboardVars, emailPid, limiterVars, writes>>

\* A character typed at the end of the text.
TypeCharacter ==
    \E c \in PasteChars :
        /\ Len(pidList) < MaxPasteLen
        /\ SetPidList(Append(pidList, c))

\* The last character deleted.
DeleteCharacter ==
    /\ pidList # <<>>
    /\ SetPidList(SubSeq(pidList, 1, Len(pidList) - 1))

\* The Clear button, shown while the text is not blank.
ClearPidList ==
    /\ trim(pidList) # <<>>
    /\ SetPidList(<<>>)

\* A render that keeps the comparison computed from the earlier snapshot.
SetInventory_staleComparison(devices) ==
    /\ inventory' = devices
    /\ UNCHANGED <<pc, sn, pid, expected, mismatch, token, normalized,
                   pidList, parsed, result>>
    /\ UNCHANGED <<dashboardVars, emailPid, limiterVars, writes>>

\* setInventory(data) of the snapshot listener, then the render: the
\* comparison is recomputed, parsedPids is kept.
SetInventory(devices) ==
    /\ inventory' = devices
    /\ result' = comparison(parsed, devices)
    /\ UNCHANGED <<pc, sn, pid, expected, mismatch, token, normalized,
                   pidList, parsed>>
    /\ UNCHANGED <<dashboardVars, emailPid, limiterVars, writes>>

\* A snapshot with one more device.
SnapshotDeviceAdded ==
    \E p \in InventoryPidNumbers,
       id \in DeviceIds \ {inventory[i].id : i \in 1..Len(inventory)} :
        /\ Len(inventory) < MaxInventory
        /\ SetInventory(Append(inventory, [id |-> id, pid_number |-> p]))

\* A snapshot with one device less.
SnapshotDeviceRemoved ==
    \E i \in 1..Len(inventory) :
        SetInventory(SubSeq(inventory, 1, i - 1)
                        \o SubSeq(inventory, i + 1, Len(inventory)))

Next ==
    \/ TypeCharacter
    \/ DeleteCharacter
    \/ ClearPidList
    \/ SnapshotDeviceAdded
    \/ SnapshotDeviceRemoved

Spec == Init /\ [][Next]_vars

Occurrences(s, x) == Cardinality({i \in 1..Len(s) : s[i] = x})

\* C10: every parsed identifier is classified exactly once: found and missing
\* together are as long as the parsed list, every identifier occurs in found
\* and missing together as often as in the parsed list, and none occurs in
\* both.
C10_EveryTokenClassifiedOnce ==
    /\ Len(result.found) + Len(result.missing) = Len(parsed)
    /\ \A t \in Range(parsed) \cup Range(result.found) \cup Range(result.missing) :
           /\ Occurrences(result.found, t) + Occurrences(result.missing, t)
                  = Occurrences(parsed, t)
           /\ Occurrences(result.found, t) = 0 \/ Occurrences(result.missing, t) = 0

\* Two identifiers pasted, one found in the inventory and one missing.
C10_Witness ==
    /\ Len(parsed) = 2
    /\ Len(inventory) = 2
    /\ Len(result.found) = 1
    /\ Len(result.missing) = 1

\* The device has a PID that is not empty after trimming, and it normalizes
\* to t.
Matches(device, t) ==
    /\ device.pid_number # Undefined
    /\ device.pid_number # <<>>
    /\ trim(device.pid_number) # <<>>
    /\ normalizePid(device.pid_number) = t

\* C11: foundDevices is as long as found, foundDevices[i] is a device of the
\* snapshot whose normalized PID is found[i], and an identifier found at two
\* positions has the same device at both.
C11_FoundDevicesCorrespond ==
    /\ Len(result.foundDevices) = Len(result.found)
    /\ \A i \in 1..Len(result.found) :
           /\ \E k \in 1..Len(inventory) :
                  /\ inventory[k] = result.foundDevices[i]
                  /\ Matches(inventory[k], result.found[i])
           /\ \A j \in 1..Len(result.found) :
                  result.found[j] = result.found[i]
                      => result.foundDevices[j] = result.foundDevices[i]

\* An identifier pasted twice and in the inventory: the same device twice.
C11_Witness ==
    /\ Len(result.found) = 2
    /\ result.found[1] = result.found[2]
    /\ Len(result.foundDevices) = 2
    /\ result.foundDevices[1] = result.foundDevices[2]

\* The elements of s that satisfy (keep = TRUE) or fail (keep = FALSE) having
\* a matching device in the snapshot, in the order of s.
RECURSIVE Partition(_, _, _)
Partition(s, devices, keep) ==
    IF s = <<>> THEN <<>>
    ELSE LET matched == \E k \in 1..Len(devices) : Matches(devices[k], Head(s))
             rest == Partition(Tail(s), devices, keep)
         IN  IF matched = keep THEN <<Head(s)>> \o rest ELSE rest

\* C12: a parsed identifier is in found exactly when some device of the
\* snapshot has a PID that is non-empty after trimming and normalizes to it,
\* and in missing otherwise; found and missing keep the order of the parsed
\* list; a device whose PID is absent or blank matches no identifier.
C12_FoundIffInventoryHasPid ==
    /\ result.found = Partition(parsed, inventory, TRUE)
    /\ result.missing = Partition(parsed, inventory, FALSE)
    /\ \A i \in 1..Len(result.foundDevices) :
           /\ result.foundDevices[i].pid_number # Undefined
           /\ \E c \in Range(result.foundDevices[i].pid_number) :
                  c \notin {" ", "\t", "\n", "\r"}

\* A device with a blank PID and one whose PID matches after normalization,
\* with one identifier found and one missing.
C12_Witness ==
    /\ Len(inventory) = 2
    /\ inventory[1].pid_number = <<" ">>
    /\ inventory[2].pid_number = <<"a", " ">>
    /\ result.found = << <<"A">> >>
    /\ result.missing = << <<"B">> >>

\* C13: the device reported for a found identifier is the last device of the
\* snapshot, in its order, whose PID normalizes to that identifier; two
\* devices with the same normalized PID do not make the comparison fail.
C13_LastDeviceWins ==
    \A i \in 1..Len(result.found) :
        \E k \in 1..Len(inventory) :
            /\ Matches(inventory[k], result.found[i])
            /\ \A l \in (k + 1)..Len(inventory) :
                   ~Matches(inventory[l], result.found[i])
            /\ result.foundDevices[i] = inventory[k]

\* Two devices with the same normalized PID: the second is reported.
C13_Witness ==
    /\ Len(inventory) = 2
    /\ inventory[1].pid_number = <<"A">>
    /\ inventory[2].pid_number = <<"a", " ">>
    /\ result.found # <<>>
    /\ result.foundDevices[1] = inventory[2]

\* C18: after any interleaving of text edits and snapshot deliveries the
\* result shown is the comparison of the parsed current text with the
\* current snapshot.
C18_ResultIsCurrent ==
    /\ parsed = parsedPids(pidList)
    /\ result = comparison(parsedPids(pidList), inventory)

\* A text that was edited after the snapshot that decides its result came.
C18_Witness ==
    /\ Len(inventory) = 1
    /\ Len(pidList) = MaxPasteLen
    /\ Len(result.found) = 1
    /\ Len(result.missing) = 1

----------------------------------------------------------------------------
(* handleCapwinEmail of the dashboard: the PID quoted in the registration  *)
(* email of one device.                                                    *)

\* s.slice(-n) for 0 < n: the last n characters of s, all of s if shorter.
sliceFromEnd(s, n) ==
    IF Len(s) <= n THEN s ELSE SubSeq(s, Len(s) - n + 1, Len(s))

\* const expectedPid = `Z100A${device.serial_number.slice(-5)}`
capwinExpectedPid(serial) ==
    <<"Z", "1", "0", "0", "A">> \o sliceFromEnd(serial, 5)

InitEmail ==
    /\ pc = "device"
    /\ sn \in SerialInputs
    /\ pid \in PidInputs
    /\ expected = <<>>
    /\ mismatch = FALSE
    /\ NormalizerIdle
    /\ ReconcilerIdle
    /\ DashboardIdle
    /\ LimiterIdle

\* The email is written for a device with a serial number and a PID, and
\* refused ("Device information is incomplete") for any other.
handleCapwinEmail ==
    /\ pc = "device"
    /\ IF Falsy(sn) \/ Falsy(pid)
       THEN /\ pc' = "incomplete"
            /\ emailPid' = emailPid
       ELSE /\ pc' = "emailed"
            /\ emailPid' = capwinExpectedPid(sn)
    /\ UNCHANGED <<sn, pid, expected, mismatch, token, normalized,
                   pidList, inventory, parsed, result, dashboardVars,
                   limiterVars, writes>>

NextEmail == handleCapwinEmail

SpecEmail == InitEmail /\ [][NextEmail]_vars

\* C20: the PID the email says the serial number "becomes" is the derived
\* identifier of the serial number: the serial with its first 4 characters
\* replaced by "Z100".
C20_EmailQuotesDerivedIdentifier ==
    pc = "emailed" => emailPid = calculateExpectedPid(sn)

----------------------------------------------------------------------------
(* "Add to System": handleAddMissingPids of the modal calls                *)
(* handleBulkAddDevices of the dashboard, which writes the placeholder     *)
(* devices to the collection in batches of CHUNK_SIZE while text edits and *)
(* snapshots go on.  The fields of a device that the core reads character  *)
(* by character (serial_number, pid_number) are sequences of characters;   *)
(* the others are opaque strings.  updated_at, a timestamp that nothing    *)
(* reads, is left out.                                                     *)

idleVars == <<pc, sn, pid, expected, mismatch, token, normalized, emailPid,
              limiterVars, writes>>

\* The placeholder created as an unassigned device.
placeholderDevice_unassigned(p) ==
    [serial_number |-> <<>>,
     pid_number |-> p,
     asset_id |-> "UNKNOWN",
     device_type |-> "Toughbook",
     status |-> "Unassigned",
     to_be_retired |-> FALSE,
     officer |-> "",
     assignment_date |-> "",
     notes |-> ""]

\* The DeviceFormData of one missing PID.
placeholderDevice(p) ==
    [serial_number |-> <<>>,
     pid_number |-> p,
     asset_id |-> "UNKNOWN",
     device_type |-> "Toughbook",
     status |-> "Unknown",
     to_be_retired |-> FALSE,
     officer |-> "",
     assignment_date |-> "",
     notes |-> ""]

\* A payload with one device per distinct missing PID.
devicesToAdd_deduplicated(missing) ==
    [i \in 1..Len(unique(missing)) |-> placeholderDevice(unique(missing)[i])]

\* const devicesToAdd = comparison.missing.map(pid => ({...}))
devicesToAdd(missing) ==
    [i \in 1..Len(missing) |-> placeholderDevice(missing[i])]

\* Slices that take one device too many: slice(i, i + CHUNK_SIZE + 1).
chunksOf_inclusiveEnd(devices) ==
    LET n == Len(devices)
        count == (n + CHUNK_SIZE - 1) \div CHUNK_SIZE
    IN  [k \in 1..count |->
            SubSeq(devices,
                   (k - 1) * CHUNK_SIZE + 1,
                   IF k * CHUNK_SIZE + 1 < n THEN k * CHUNK_SIZE + 1 ELSE n)]

\* devices.slice(i, i + CHUNK_SIZE) for i = 0, CHUNK_SIZE, ...
chunksOf(devices) ==
    LET n == Len(devices)
        count == (n + CHUNK_SIZE - 1) \div CHUNK_SIZE
    IN  [k \in 1..count |->
            SubSeq(devices,
                   (k - 1) * CHUNK_SIZE + 1,
                   IF k * CHUNK_SIZE < n THEN k * CHUNK_SIZE ELSE n)]

\* The documents of a list of payloads: { id, ...payload }.
withIds(devices, ids) ==
    [i \in 1..Len(devices) |-> [id |-> ids[i]] @@ devices[i]]

\* The ids of the mock mode, which nothing orders by: one after the other.
nextIds(last, n) == [i \in 1..n |-> last + i]

\* The document ids of the model.  Firestore draws the id of a new document
\* at random: any id that no document has.
DocIds == 1..MaxStore

freshIds(docs, n) ==
    {ids \in [1..n -> DocIds \ {docs[i].id : i \in DOMAIN docs}] :
        \A i, j \in 1..n : i # j => ids[i] # ids[j]}

\* The same for the documents of the device form.
SavedIds == 1..MaxSaved

freshId(docs) == SavedIds \ {docs[i].id : i \in DOMAIN docs}

\* The characters of the model's serial numbers in the order of their
\* UTF-8 encoding, by which Firestore compares strings.
CodeOrder ==
    <<"\t", "\n", "\r", " ", "!", "#", ",", "-">>
        \o <<"0", "1", "2", "3", "4", "5", "6", "7", "8", "9", ";">>
        \o UpperLetters \o <<"_">> \o LowerLetters \o <<"É", "é">>

codeOf(c) == CHOOSE i \in DOMAIN CodeOrder : CodeOrder[i] = c

\* a sorts before b.
RECURSIVE stringBefore(_, _)
stringBefore(a, b) ==
    IF a = <<>> THEN b # <<>>
    ELSE IF b = <<>> THEN FALSE
    ELSE IF a[1] = b[1] THEN stringBefore(Tail(a), Tail(b))
    ELSE codeOf(a[1]) < codeOf(b[1])

\* The order of the query: by serial_number, documents with the same one by
\* document id.
docBefore(d, e) ==
    \/ stringBefore(d.serial_number, e.serial_number)
    \/ d.serial_number = e.serial_number /\ d.id < e.id

\* query(collection(db, "toughbooks"), orderBy("serial_number"))
RECURSIVE orderBySerial(_)
orderBySerial(docs) ==
    IF docs = <<>> THEN <<>>
    ELSE LET first == CHOOSE i \in DOMAIN docs :
                          \A j \in DOMAIN docs \ {i} : docBefore(docs[i], docs[j])
         IN  <<docs[first]>>
                 \o orderBySerial([k \in 1..(Len(docs) - 1) |->
                                      IF k < first THEN docs[k] ELSE docs[k + 1]])

\* The mock inventory of a dashboard without Firestore.
MockData ==
    << [id |-> 1,
        serial_number |-> <<"3", "I", "T", "T", "A", "1", "3", "9", "2", "7">>,
        pid_number |-> <<"Z", "1", "0", "0", "A", "1", "3", "9", "2", "7">>,
        asset_id |-> "TB-1",
        device_type |-> "Toughbook",
        status |-> "Assigned",
        officer |-> "SGT. BILER",
        assignment_date |-> "2024-07-31",
        notes |-> "Test unit"],
       [id |-> 2,
        serial_number |-> <<"4", "G", "T", "T", "A", "9", "9", "9", "9", "9">>,
        pid_number |-> <<"O", "L", "D", "_", "P", "I", "D", "_", "1", "2", "3">>,
        asset_id |-> "TB-2",
        device_type |-> "Toughbook",
        status |-> "Unassigned",
        officer |-> "",
        assignment_date |-> "",
        notes |-> "Legacy PID mismatch example"] >>

AddChars == {"a", "b"}

\* `toasts` holds the toasts of the latest "Add to System", those of the
\* dashboard first.
SuccessToast(n) == [type |-> "success", count |-> n]

ErrorToast(handler) == [type |-> "error", from |-> handler]

InitAdd ==
    /\ pc = "dashboard"
    /\ db \in BOOLEAN
    /\ open = FALSE
    /\ isAddingDevices = FALSE
    /\ call = NoCall
    /\ store = <<>>
    /\ closeTimers = 0
    /\ toasts = <<>>
    /\ pidList = <<>>
    /\ inventory = IF db THEN <<>> ELSE MockData
    /\ parsed = <<>>
    /\ result = NoComparison
    /\ DeriverIdle
    /\ NormalizerIdle
    /\ emailPid = <<>>
    /\ LimiterIdle
    /\ writes = NoWrites

\* The "Compare PIDs" button of the dashboard.
OpenModal ==
    /\ ~open
    /\ open' = TRUE
    /\ UNCHANGED <<idleVars, pidList, inventory, parsed, result,
                   db, isAddingDevices, call, store, closeTimers, toasts>>

\* The Close button, or the dialog dismissed.
CloseModal ==
    /\ open
    /\ open' = FALSE
    /\ UNCHANGED <<idleVars, pidList, inventory, parsed, result,
                   db, isAddingDevices, call, store, closeTimers, toasts>>

\* The timer set after a successful add closes the modal.
CloseTimerFires ==
    /\ closeTimers > 0
    /\ closeTimers' = closeTimers - 1
    /\ open' = FALSE
    /\ UNCHANGED <<idleVars, pidList, inventory, parsed, result,
                   db, isAddingDevices, call, store, toasts>>

\* One more PID pasted on a line of its own into the textarea of the open
\* modal.
PasteLine ==
    \E c \in AddChars :
        /\ open
        /\ Len(pidList) < 2 * MaxAddLines
        /\ SetPidList(pidList \o <<c, "\n">>)

\* The Clear button of the open modal.
AddClearPidList ==
    /\ open
    /\ ClearPidList

\* The snapshot listener is called with the result of the query on the
\* collection as it is now, in a task of its own, any time after a write.
DeliverSnapshot ==
    /\ db
    /\ inventory # orderBySerial(store)
    /\ SetInventory(orderBySerial(store))

\* There is room in the model for n more documents.
RoomFor(n) ==
    IF db THEN Len(store) + n <= MaxStore
    ELSE Len(inventory) + n <= Len(MockData) + MaxStore

\* What follows `await onAddDevices(devicesToAdd)` when it resolved: the
\* success toast, setPidList("") and its render, the timer, the finally.
AddResolved(devices) ==
    /\ pidList' = <<>>
    /\ parsed' = parsedPids(<<>>)
    /\ result' = comparison(parsedPids(<<>>), devices)
    /\ closeTimers' = closeTimers + 1
    /\ isAddingDevices' = FALSE

\* A button that is never disabled.
AddButtonEnabled_always == TRUE

\* disabled={isAddingDevices}
AddButtonEnabled == ~isAddingDevices

\* The "Add to System" button: shown while there are missing PIDs, disabled
\* while isAddingDevices.  With Firestore the call runs up to the commit of
\* its first batch; without, it appends to the inventory and returns.
handleAddMissingPids ==
    /\ open
    /\ AddButtonEnabled
    /\ Len(result.missing) # 0
    /\ RoomFor(Len(result.missing))
    /\ closeTimers < MaxCloseTimers
    /\ LET devices == devicesToAdd(result.missing)
       IN  IF db
           THEN /\ isAddingDevices' = TRUE
                /\ call' = [status |-> "pending",
                            missing |-> result.missing,
                            devices |-> devices,
                            chunk |-> 1,
                            successCount |-> Len(chunksOf(devices)[1])]
                /\ toasts' = <<>>
                /\ UNCHANGED <<pidList, inventory, parsed, result, closeTimers>>
           ELSE /\ inventory' = inventory
                                \o withIds(devices,
                                           nextIds(Len(inventory), Len(devices)))
                /\ call' = [status |-> "fulfilled",
                            missing |-> result.missing,
                            devices |-> devices,
                            chunk |-> 0,
                            successCount |-> Len(devices)]
                /\ toasts' = <<SuccessToast(Len(devices)),
                               SuccessToast(Len(result.missing))>>
                /\ AddResolved(inventory')
    /\ UNCHANGED <<idleVars, db, open, store>>

\* A mutant of the commit below: the next batch is built from the missing
\* list as it is now, not from the payload handed over.
PendingChunk_live ==
    LET live == chunksOf(devicesToAdd(result.missing))
    IN  IF call.chunk <= Len(live) THEN live[call.chunk] ELSE <<>>

\* The batch whose commit is awaited.
PendingChunk == chunksOf(call.devices)[call.chunk]

\* chunkBatch.commit() resolves: the batch is in the collection.  The loop
\* goes on to the next batch, or the call returns and the modal goes on.
CommitSucceeds ==
    /\ call.status = "pending"
    /\ \E ids \in freshIds(store, Len(PendingChunk)) :
          store' = store \o withIds(PendingChunk, ids)
    /\ IF call.chunk < Len(chunksOf(call.devices))
       THEN /\ call' = [call EXCEPT
                           !.chunk = @ + 1,
                           !.successCount =
                               @ + Len(chunksOf(call.devices)[call.chunk + 1])]
            /\ UNCHANGED <<pidList, parsed, result, closeTimers,
                           isAddingDevices, toasts>>
       ELSE /\ call' = [call EXCEPT !.status = "fulfilled"]
            /\ toasts' = <<SuccessToast(call.successCount),
                           SuccessToast(Len(call.missing))>>
            /\ AddResolved(inventory)
    /\ UNCHANGED <<idleVars, db, open, inventory>>

\* A failure handler that clears the text whatever the outcome.
CommitFails_clearsText ==
    /\ call.status = "pending"
    /\ call' = [call EXCEPT !.status = "rejected"]
    /\ toasts' = <<ErrorToast("handleBulkAddDevices"),
                   ErrorToast("handleAddMissingPids")>>
    /\ isAddingDevices' = FALSE
    /\ pidList' = <<>>
    /\ parsed' = parsedPids(<<>>)
    /\ result' = comparison(parsedPids(<<>>), inventory)
    /\ UNCHANGED <<idleVars, db, open, store, closeTimers, inventory>>

\* chunkBatch.commit() rejects: nothing of the batch is written; the
\* dashboard toasts and rethrows, the modal toasts, the finally runs.
CommitFails ==
    /\ call.status = "pending"
    /\ call' = [call EXCEPT !.status = "rejected"]
    /\ toasts' = <<ErrorToast("handleBulkAddDevices"),
                   ErrorToast("handleAddMissingPids")>>
    /\ isAddingDevices' = FALSE
    /\ UNCHANGED <<idleVars, db, open, store, closeTimers,
                   pidList, inventory, parsed, result>>

NextAdd ==
    \/ OpenModal
    \/ CloseModal
    \/ CloseTimerFires
    \/ PasteLine
    \/ AddClearPidList
    \/ DeliverSnapshot
    \/ handleAddMissingPids
    \/ CommitSucceeds
    \/ CommitFails

SpecAdd == InitAdd /\ [][NextAdd]_vars

----------------------------------------------------------------------------
(* Claims on "Add to System". *)

\* C14: the payload built for a missing list has one device per element of
\* the list, in the order of the list, device i carrying missing[i] as its
\* pid_number; an identifier that is missing twice gets two devices.
C14_OnePayloadPerMissing ==
    call.status # "none" =>
        /\ Len(call.devices) = Len(call.missing)
        /\ \A i \in 1..Len(call.missing) :
              call.devices[i].pid_number = call.missing[i]

\* A call in flight whose missing list holds the same identifier twice.
C14_Witness ==
    /\ call.status = "pending"
    /\ call.missing = << <<"A">>, <<"A">> >>
    /\ Len(call.devices) = 2

\* C15: every placeholder has an empty serial number, asset id "UNKNOWN",
\* device type "Toughbook", status "Unknown", to_be_retired false, and empty
\* officer, assignment date and notes, whatever its identifier; it has no
\* other field than these and pid_number.
C15_PlaceholderFields ==
    call.status # "none" =>
        \A i \in 1..Len(call.devices) :
            /\ DOMAIN call.devices[i] =
                  {"serial_number", "pid_number", "asset_id", "device_type",
                   "status", "to_be_retired", "officer", "assignment_date",
                   "notes"}
            /\ call.devices[i].serial_number = <<>>
            /\ call.devices[i].asset_id = "UNKNOWN"
            /\ call.devices[i].device_type = "Toughbook"
            /\ call.devices[i].status = "Unknown"
            /\ call.devices[i].to_be_retired = FALSE
            /\ call.devices[i].officer = ""
            /\ call.devices[i].assignment_date = ""
            /\ call.devices[i].notes = ""

\* A payload with the placeholders of two different identifiers.
C15_Witness ==
    /\ call.status = "pending"
    /\ Len(call.devices) = 2
    /\ call.devices[1].pid_number = <<"A">>
    /\ call.devices[2].pid_number = <<"B">>

\* C16: the step in which the bulk create fails, after none or some of its
\* batches were written, reports the failure from the dashboard and from the
\* modal and leaves the text, the open modal and the partition as they were,
\* the partition being the reconciliation of the text against the snapshot;
\* and a step of the call that clears a non-empty text is its success.
C16_FailureLeavesReconciler ==
    [][ /\ (call.status = "pending" /\ call'.status = "rejected") =>
              /\ toasts' = <<ErrorToast("handleBulkAddDevices"),
                             ErrorToast("handleAddMissingPids")>>
              /\ pidList' = pidList
              /\ open' = open
              /\ closeTimers' = closeTimers
              /\ result' = result
              /\ result' = comparison(parsedPids(pidList'), inventory')
        /\ (call' # call /\ pidList # <<>> /\ pidList' = <<>>) =>
              call'.status = "fulfilled"
      ]_vars

\* A bulk create that failed on its second batch: the first batch is in the
\* collection, the failure is on display, the text and the modal are there.
C16_Witness ==
    /\ call.status = "rejected"
    /\ call.chunk = 2
    /\ Len(store) = 1
    /\ toasts = <<ErrorToast("handleBulkAddDevices"),
                  ErrorToast("handleAddMissingPids")>>
    /\ pidList = <<"a", "\n", "b", "\n">>
    /\ open
    /\ result.missing = << <<"A">>, <<"B">> >>

\* C17: no two documents of the collection have the same non-empty serial
\* number, and no two have the same non-empty PID.
C17_StoreIdentifiersUnique ==
    \A i, j \in DOMAIN store :
        i # j =>
            /\ ~(store[i].serial_number # <<>>
                   /\ store[i].serial_number = store[j].serial_number)
            /\ ~(store[i].pid_number # <<>>
                   /\ store[i].pid_number = store[j].pid_number)

\* The PIDs of the last n documents of a list.
lastPids(docs, n) ==
    [i \in 1..n |-> docs[Len(docs) - n + i].pid_number]

\* C19: the call starts with the missing list of the moment of the click
\* and all of its placeholders; neither changes while the call is in flight,
\* whatever is pasted, cleared or delivered meanwhile; and when the call has
\* succeeded, the documents it wrote are the placeholders of that list, in
\* its order.
C19_PayloadIsSnapshotAtInvocation ==
    [][ /\ (call.status # "pending" /\ call' # call) =>
              /\ call'.missing = result.missing
              /\ call'.devices = devicesToAdd(result.missing)
        /\ call.status = "pending" =>
              /\ call'.missing = call.missing
              /\ call'.devices = call.devices
        /\ (call.status = "pending" /\ call'.status = "fulfilled") =>
              /\ Len(store') >= Len(call.missing)
              /\ lastPids(store', Len(call.missing)) = call.missing
        /\ (call.status # "pending" /\ call'.status = "fulfilled"
               /\ call' # call) =>
              lastPids(inventory', Len(result.missing)) = result.missing
      ]_vars

\* A call in flight past its first batch while the missing list on display
\* is no longer the one the call was started with.
C19_Witness ==
    /\ call.status = "pending"
    /\ call.chunk = 2
    /\ result.missing # call.missing

----------------------------------------------------------------------------
(* The device form: handleSaveDevice of the dashboard, called by the form  *)
(* with the values of a new device or of the device being edited.          *)

SaveSerials == {<<>>, <<"S">>}

SavePids == {<<>>, <<"A">>, <<"B">>}

\* What the device form hands to onSave: the identifiers in upper case, at
\* least one of them given, the other fields at the defaults of the form,
\* of which the assignment date is the day the form was opened.
formData(serial, p) ==
    [serial_number |-> serial,
     pid_number |-> p,
     asset_id |-> "",
     device_type |-> "Toughbook",
     ori_number |-> <<>>,
     status |-> "Unassigned",
     to_be_retired |-> FALSE,
     pid_registered |-> FALSE,
     officer |-> "",
     assignment_date |-> "<today>",
     notes |-> ""]

SaveData ==
    {formData(serial, p) : serial \in SaveSerials, p \in SavePids}
        \ {formData(<<>>, <<>>)}

\* A collection with one device that did not come through the form: its
\* identifiers are in lower case, the serial number padded.
ImportedStore ==
    << [id |-> 1,
        serial_number |-> <<"s", " ">>,
        pid_number |-> <<"a">>,
        asset_id |-> "TB-1",
        device_type |-> "Toughbook",
        status |-> "Assigned",
        to_be_retired |-> FALSE,
        officer |-> "",
        assignment_date |-> "",
        notes |-> ""] >>

SaveToast(type) == [type |-> type, from |-> "handleSaveDevice"]

\* value && value.trim()
Provided(value) == ~Falsy(value) /\ ~Falsy(trim(value))

\* A duplicate check that compares the values as they are.
sameIdentifier_exact(stored, given) ==
    /\ ~Falsy(stored)
    /\ stored = given

\* device.serial_number &&
\*     device.serial_number.toUpperCase().trim() === normalizedSerial, where
\* normalizedSerial = data.serial_number.toUpperCase().trim()
sameIdentifier(stored, given) ==
    /\ ~Falsy(stored)
    /\ trim(toUpperCase(stored)) = trim(toUpperCase(given))

\* inventory.find(device => device.id !== editingDevice.id && ...) for the
\* serial number; editing = 0 stands for no editingDevice.
duplicateSerial(data, editing) ==
    /\ Provided(data.serial_number)
    /\ \E i \in DOMAIN inventory :
          /\ inventory[i].id # editing
          /\ sameIdentifier(inventory[i].serial_number, data.serial_number)

\* The same for the PID.
duplicatePid(data, editing) ==
    /\ Provided(data.pid_number)
    /\ \E i \in DOMAIN inventory :
          /\ inventory[i].id # editing
          /\ sameIdentifier(inventory[i].pid_number, data.pid_number)

\* The documents after addDoc, which draws the id, (editing = 0) or after
\* updateDoc of document `editing` with the payload.
saved(docs, data, editing, id) ==
    IF editing = 0
    THEN docs \o withIds(<<data>>, <<id>>)
    ELSE [i \in DOMAIN docs |->
            IF docs[i].id = editing
            THEN data @@ docs[i]
            ELSE docs[i]]

\* There is room in the model for one more saved document.
RoomToSave ==
    IF db THEN Len(store) < MaxSaved
    ELSE Len(inventory) < Len(MockData) + MaxSaved

\* A write that a handler of the dashboard awaits.
PendingSave(data, editing) ==
    [kind |-> "save", data |-> data, editing |-> editing]

PendingOri(ids, ori) == [kind |-> "ori", ids |-> ids, ori_number |-> ori]

\* handleSaveDevice(data) with editingDevice the device of id `editing`, or
\* none.  The duplicate checks read the inventory of the dashboard.  With
\* Firestore the call runs up to the await of addDoc or updateDoc; without,
\* it changes the inventory and returns.
saveDevice(data, editing) ==
    /\ editing = 0 => RoomToSave
    /\ IF duplicateSerial(data, editing) \/ duplicatePid(data, editing)
       THEN /\ toasts' = <<SaveToast("error")>>
            /\ UNCHANGED <<store, inventory, result, writes>>
       ELSE IF db
       THEN /\ writes' = Append(writes, PendingSave(data, editing))
            /\ toasts' = <<>>
            /\ UNCHANGED <<store, inventory, result>>
       ELSE /\ inventory' = saved(inventory, data, editing, Len(inventory) + 1)
            /\ result' = comparison(parsed, inventory')
            /\ toasts' = <<SaveToast("success")>>
            /\ UNCHANGED <<store, writes>>
    /\ UNCHANGED <<pc, sn, pid, expected, mismatch, token, normalized,
                   emailPid, limiterVars, pidList, parsed, db, open,
                   isAddingDevices, call, closeTimers>>

\* The form awaits its onSave: its submit button is disabled.
isSubmitting == \E i \in DOMAIN writes : writes[i].kind = "save"

\* The form submitted for a new device or for a device of the inventory;
\* its submit button is disabled until the call before has returned.
handleSaveDevice ==
    /\ ~isSubmitting
    /\ \E data \in SaveData :
        \E editing \in {0} \cup {inventory[i].id : i \in DOMAIN inventory} :
            saveDevice(data, editing)

\* The writes of one client are acknowledged in the order they were made.
\* addDoc or updateDoc resolves: the document is in the collection, the
\* success toast is shown.
SaveResolves ==
    /\ writes # <<>>
    /\ Head(writes).kind = "save"
    /\ IF Head(writes).editing = 0
       THEN \E id \in freshId(store) :
               store' = saved(store, Head(writes).data, 0, id)
       ELSE store' = saved(store, Head(writes).data, Head(writes).editing,
                           Head(writes).editing)
    /\ toasts' = <<SaveToast("success")>>
    /\ writes' = Tail(writes)
    /\ UNCHANGED <<pc, sn, pid, expected, mismatch, token, normalized,
                   emailPid, limiterVars, pidList, inventory, parsed, result,
                   db, open, isAddingDevices, call, closeTimers>>

\* addDoc or updateDoc rejects: nothing is written, the error is toasted.
SaveRejects ==
    /\ writes # <<>>
    /\ Head(writes).kind = "save"
    /\ toasts' = <<ErrorToast("firebase")>>
    /\ writes' = Tail(writes)
    /\ UNCHANGED <<pc, sn, pid, expected, mismatch, token, normalized,
                   emailPid, limiterVars, pidList, inventory, parsed, result,
                   db, open, isAddingDevices, call, store, closeTimers>>

\* What is typed into the bulk ORI dialog.
BulkOriValues == {<<>>, <<"m", "d", " ">>}

\* trimmedValue ? sanitizeAlphanumeric(trimmedValue.toUpperCase()) : ""
sanitizedOri(bulkOriValue) ==
    IF trim(bulkOriValue) = <<>> THEN <<>>
    ELSE sanitizeAlphanumeric(toUpperCase(trim(bulkOriValue)))

OriToast(type) == [type |-> type, from |-> "handleBulkOriSave"]

\* The bulk ORI updates awaited.
oriPending == Len(SelectSeq(writes, LAMBDA w : w.kind = "ori"))

\* handleBulkOriSave with the devices `selected`, none or all of the
\* inventory, and the value typed, from the button or the Enter key of the dialog: without a
\* selection or without Firestore it toasts and returns; else it runs up
\* to the await of the commit of its batch.
handleBulkOriSave ==
    \E selected \in {{}, {inventory[i].id : i \in DOMAIN inventory}},
       bulkOriValue \in BulkOriValues :
        /\ IF selected = {} \/ ~db
           THEN /\ toasts' = <<OriToast("error")>>
                /\ UNCHANGED writes
           ELSE /\ oriPending < MaxOriPending
                /\ writes' = Append(writes,
                                    PendingOri(selected,
                                               sanitizedOri(bulkOriValue)))
                /\ UNCHANGED toasts
        /\ UNCHANGED <<pc, sn, pid, expected, mismatch, token, normalized,
                       emailPid, limiterVars, pidList, inventory, parsed,
                       result, db, open, isAddingDevices, call, store,
                       closeTimers>>

\* batch.update(deviceRef, { ori_number, updated_at }) on each document.
oriUpdated(docs, ids, ori) ==
    [i \in DOMAIN docs |->
        IF docs[i].id \in ids
        THEN [ori_number |-> ori] @@ docs[i]
        ELSE docs[i]]

\* batch.commit() of the bulk ORI update resolves.
OriCommitSucceeds ==
    /\ writes # <<>>
    /\ Head(writes).kind = "ori"
    /\ store' = oriUpdated(store, Head(writes).ids, Head(writes).ori_number)
    /\ toasts' = <<OriToast("success")>>
    /\ writes' = Tail(writes)
    /\ UNCHANGED <<pc, sn, pid, expected, mismatch, token, normalized,
                   emailPid, limiterVars, pidList, inventory, parsed, result,
                   db, open, isAddingDevices, call, closeTimers>>

\* batch.commit() of the bulk ORI update rejects: no document is changed.
OriCommitFails ==
    /\ writes # <<>>
    /\ Head(writes).kind = "ori"
    /\ toasts' = <<ErrorToast("handleBulkOriSave")>>
    /\ writes' = Tail(writes)
    /\ UNCHANGED <<pc, sn, pid, expected, mismatch, token, normalized,
                   emailPid, limiterVars, pidList, inventory, parsed, result,
                   db, open, isAddingDevices, call, store, closeTimers>>

InitSave ==
    /\ pc = "dashboard"
    /\ db \in BOOLEAN
    /\ store \in (IF db THEN {<<>>, ImportedStore} ELSE {<<>>})
    /\ inventory = IF db THEN <<>> ELSE MockData
    /\ open = FALSE
    /\ isAddingDevices = FALSE
    /\ call = NoCall
    /\ closeTimers = 0
    /\ toasts = <<>>
    /\ pidList = <<>>
    /\ parsed = <<>>
    /\ result = NoComparison
    /\ DeriverIdle
    /\ NormalizerIdle
    /\ emailPid = <<>>
    /\ LimiterIdle
    /\ writes = NoWrites

NextSave ==
    \/ handleSaveDevice
    \/ SaveResolves
    \/ SaveRejects
    \/ handleBulkOriSave
    \/ OriCommitSucceeds
    \/ OriCommitFails
    \/ DeliverSnapshot

SpecSave == InitSave /\ [][NextSave]_vars

----------------------------------------------------------------------------
(* Claims on the device form. *)

\* An identifier as the duplicate checks compare it.
upperTrimmed(value) == trim(toUpperCase(value))

\* The given serial number or PID, when not blank, is that of the device.
Clashes(data, device) ==
    \/ /\ trim(data.serial_number) # <<>>
       /\ upperTrimmed(device.serial_number) = upperTrimmed(data.serial_number)
    \/ /\ trim(data.pid_number) # <<>>
       /\ upperTrimmed(device.pid_number) = upperTrimmed(data.pid_number)

\* C21: a save, add (editing = 0) or edit, whose serial number or PID is,
\* upper-cased and trimmed, that of another device of the snapshot ends with
\* the duplicate error and writes nothing, now or later; a save that
\* clashes with no other device, such as an edit that keeps the device's
\* own identifiers, does not end with the duplicate error: with Firestore
\* it goes on to its write.  The steps looked at are those of a call of
\* handleSaveDevice while the form is not submitting: they leave the
\* collection alone, show a toast of the handler or none yet, and await at
\* most one more write.
C21_DuplicateSaveRejected ==
    [][ ( /\ ~isSubmitting
          /\ store' = store
          /\ db => inventory' = inventory
          /\ toasts' \in {<<>>, <<SaveToast("error")>>, <<SaveToast("success")>>}
          /\ writes' # writes => Len(writes') = Len(writes) + 1 ) =>
        \A data \in SaveData :
          \A editing \in {0} \cup {inventory[i].id : i \in DOMAIN inventory} :
            ( /\ writes' # writes =>
                    writes' = Append(writes, PendingSave(data, editing))
              /\ saveDevice(data, editing) ) =>
              IF \E i \in DOMAIN inventory :
                    /\ inventory[i].id # editing
                    /\ Clashes(data, inventory[i])
              THEN /\ toasts' = <<SaveToast("error")>>
                   /\ store' = store
                   /\ inventory' = inventory
                   /\ writes' = writes
              ELSE /\ toasts' # <<SaveToast("error")>>
                   /\ db => writes' = Append(writes,
                                             PendingSave(data, editing))
      ]_vars

\* A save was rejected for its clash with the imported device, whose
\* identifiers are "s " and "a": nothing but that device is stored.
C21_Witness ==
    /\ toasts = <<SaveToast("error")>>
    /\ store = ImportedStore
    /\ inventory = ImportedStore

\* C25: an add whose serial number or PID is that of a document that an
\* earlier add has written, and that the snapshot listener has not yet
\* delivered to the inventory, is rejected: it does not go on to its write.
C25_SecondSaveRejected ==
    [][ \A data \in SaveData :
          ( /\ saveDevice(data, 0)
            /\ \E i \in DOMAIN store :
                  /\ \A j \in DOMAIN inventory : inventory[j].id # store[i].id
                  /\ Clashes(data, store[i]) )
          => /\ writes' = writes
             /\ store' = store
      ]_vars

----------------------------------------------------------------------------
(* Claims on the batches of a bulk add. *)

\* C22: a bulk add that has failed has written none of its devices (it has
\* not written them all: the batch that failed is not in the collection).
\* When the call is rejected, batches 1 .. call.chunk - 1 were committed.
C22_BulkAddAllOrNothing ==
    call.status = "rejected" => call.chunk = 1

RECURSIVE flatten(_)
flatten(chunks) ==
    IF chunks = <<>> THEN <<>> ELSE Head(chunks) \o flatten(Tail(chunks))

\* The documents without their ids.
payloadsOf(docs) ==
    [i \in DOMAIN docs |->
        [f \in DOMAIN docs[i] \ {"id"} |-> docs[i][f]]]

\* C23: the batches of a call are consecutive slices of its payload, none
\* empty and none longer than CHUNK_SIZE, that put together give the
\* payload; the call starts with the first, every commit appends the batch
\* in turn to the collection and nothing else, the next commit is that of
\* the next batch, and the call succeeds on the commit of the last one,
\* reporting as many devices as the payload has.
C23_ChunksCommittedInOrder ==
    [][ /\ (call.status # "pending" /\ call'.status = "pending") =>
              call'.chunk = 1
        /\ call.status = "pending" =>
              LET chunks == chunksOf(call.devices)
              IN  /\ flatten(chunks) = call.devices
                  /\ \A k \in DOMAIN chunks :
                        Len(chunks[k]) >= 1 /\ Len(chunks[k]) <= CHUNK_SIZE
                  /\ call.chunk \in DOMAIN chunks
                  /\ store' # store =>
                        payloadsOf(store')
                            = payloadsOf(store) \o chunks[call.chunk]
                  /\ (call'.status = "pending" /\ store' # store) =>
                        call'.chunk = call.chunk + 1
                  /\ (call'.status = "pending" /\ store' = store) =>
                        call'.chunk = call.chunk
                  /\ call'.status = "fulfilled" =>
                        /\ call.chunk = Len(chunks)
                        /\ store' # store
                        /\ toasts'[1] = SuccessToast(Len(call.devices))
      ]_vars

\* A call of two devices has succeeded: both are in the collection and the
\* dashboard has reported two.
C23_Witness ==
    /\ db
    /\ call.status = "fulfilled"
    /\ Len(call.devices) = 2
    /\ payloadsOf(store) = call.devices
    /\ toasts = <<SuccessToast(2), SuccessToast(2)>>

\* C26: a bulk add is started only when none is pending and isAddingDevices
\* is false; isAddingDevices is true exactly while a call is pending, so it
\* is false again once the call has succeeded or failed.
C26_OneCallInFlight ==
    [][ /\ (call'.status = "pending" /\ call'.chunk = 1 /\ call' # call) =>
              /\ call.status # "pending"
              /\ ~isAddingDevices
        /\ isAddingDevices <=> call.status = "pending"
        /\ isAddingDevices' <=> call'.status = "pending"
      ]_vars

\* A call is pending while the modal is open on a list with missing PIDs:
\* the button is on display, disabled.
C26_Witness ==
    /\ isAddingDevices
    /\ call.status = "pending"
    /\ open
    /\ Len(result.missing) > 0
    /\ result.missing # call.missing

\* The devices that a rejected call wrote before it failed: those of the
\* batches before the one whose commit was rejected.
writtenBeforeFailure(c) ==
    flatten(SubSeq(chunksOf(c.devices), 1, c.chunk - 1))

\* C24: "Add to System" pressed again on the same text after a failed bulk
\* add does not hand over a device for a PID that the failed call has
\* already written.
C24_RetryWritesNoSecondRecord ==
    [][ (call.status = "rejected" /\ call'.status = "pending"
           /\ pidList' = pidList /\ parsedPids(pidList) = call.missing) =>
            \A i \in DOMAIN call'.devices :
                \A j \in DOMAIN writtenBeforeFailure(call) :
                    call'.devices[i].pid_number
                        # writtenBeforeFailure(call)[j].pid_number
      ]_vars

----------------------------------------------------------------------------
(* Claims on the identifiers of placeholders and of stored devices. *)

\* C27: the placeholder of every identifier parsed from a text has an empty
\* serial number and a PID that is not empty and is made of upper-case
\* letters, digits, hyphens and underscores only.
C27_PlaceholderIdentifiers ==
    pc = "parsed" =>
        \A i \in DOMAIN devicesToAdd(parsed) :
            LET device == devicesToAdd(parsed)[i]
            IN  /\ device.serial_number = <<>>
                /\ device.pid_number # <<>>
                /\ \A k \in DOMAIN device.pid_number :
                      device.pid_number[k] \in
                          Range(UpperLetters) \cup DigitChars \cup {"-", "_"}

\* A text with a lower-case letter and a character that is dropped.
C27_Witness ==
    /\ pc = "parsed"
    /\ pidList = <<"a", "!", ",", "1">>
    /\ devicesToAdd(parsed)[1].pid_number = <<"A">>
    /\ devicesToAdd(parsed)[2].pid_number = <<"1">>

----------------------------------------------------------------------------
(* The stored PID of a device pasted into the modal as the whole text. *)

StoredChars == {"A", "a", " ", ",", "!"}

StoredPids == StringsUpTo(StoredChars, MaxStoredPidLen) \ {<<>>}

InitPasteStored ==
    /\ pc = "stored"
    /\ \E p \in StoredPids : inventory = <<[id |-> 1, pid_number |-> p]>>
    /\ pidList = <<>>
    /\ parsed = <<>>
    /\ result = NoComparison
    /\ DeriverIdle
    /\ NormalizerIdle
    /\ DashboardIdle
    /\ LimiterIdle

\* The pid_number of the device becomes the text of the textarea.
PasteStoredPid ==
    /\ pc = "stored"
    /\ pc' = "pasted"
    /\ pidList' = inventory[1].pid_number
    /\ parsed' = parsedPids(pidList')
    /\ result' = comparison(parsed', inventory)
    /\ UNCHANGED <<sn, pid, expected, mismatch, token, normalized, inventory>>
    /\ UNCHANGED <<dashboardVars, emailPid, limiterVars, writes>>

NextPasteStored == PasteStoredPid

SpecPasteStored == InitPasteStored /\ [][NextPasteStored]_vars

\* C28: the stored PID of a device, when not blank, pasted as the whole
\* text gives exactly one token, and that token is found.
C28_StoredPidIsFound ==
    (pc = "pasted" /\ trim(inventory[1].pid_number) # <<>>) =>
        /\ Len(parsed) = 1
        /\ result.found = parsed
        /\ result.missing = <<>>

----------------------------------------------------------------------------
(* src/lib/security.ts: the rate limiter.  rateLimitStore is a function    *)
(* from the keys that have an entry to their entries; an entry is a record *)
(* [count, firstAttempt] that gets the field blockedUntil when it blocks.  *)

nonLimiterVars == <<pc, sn, pid, expected, mismatch, token, normalized,
                    pidList, inventory, parsed, result, dashboardVars,
                    emailPid, writes>>

Keys == {"login_attempts", "other"}

\* rateLimitStore.set(key, entry)
mapPut(entries, key, entry) ==
    [k \in DOMAIN entries \cup {key} |->
        IF k = key THEN entry ELSE entries[k]]

\* rateLimitStore.delete(key)
mapDelete(entries, key) ==
    [k \in DOMAIN entries \ {key} |-> entries[k]]

\* entry?.blockedUntil && t < entry.blockedUntil
blockedAt(entries, key, t) ==
    /\ key \in DOMAIN entries
    /\ "blockedUntil" \in DOMAIN entries[key]
    /\ entries[key].blockedUntil # 0
    /\ t < entries[key].blockedUntil

\* entry && t - entry.firstAttempt > windowMs
expiredAt(entries, key, t) ==
    /\ key \in DOMAIN entries
    /\ t - entries[key].firstAttempt > windowMs

\* What checkRateLimit(key) returns at time t.
checkRateLimitResult(entries, key, t) ==
    IF blockedAt(entries, key, t)
    THEN [blocked |-> TRUE,
          remainingAttempts |-> 0,
          retryAfterMs |-> entries[key].blockedUntil - t]
    ELSE [blocked |-> FALSE,
          remainingAttempts |->
              maxAttempts
                - (IF key \in DOMAIN entries THEN entries[key].count ELSE 0)]

\* The store after checkRateLimit(key) at time t.
checkRateLimitStore(entries, key, t) ==
    IF ~blockedAt(entries, key, t) /\ expiredAt(entries, key, t)
    THEN mapDelete(entries, key)
    ELSE entries

\* if (!entry || now - entry.firstAttempt > windowMs)
startsWindow(entries, key, t) ==
    key \notin DOMAIN entries \/ expiredAt(entries, key, t)

\* The store after recordAttempt(key) at time t.
recordAttemptStore(entries, key, t) ==
    IF startsWindow(entries, key, t)
    THEN mapPut(entries, key, [count |-> 1, firstAttempt |-> t])
    ELSE IF entries[key].count + 1 >= maxAttempts
    THEN mapPut(entries, key,
                [count |-> entries[key].count + 1,
                 firstAttempt |-> entries[key].firstAttempt,
                 blockedUntil |-> t + blockDurationMs])
    ELSE mapPut(entries, key,
                [entries[key] EXCEPT !.count = @ + 1])

\* What recordAttempt(key) returns at time t.
recordAttemptResult(entries, key, t) ==
    IF startsWindow(entries, key, t)
    THEN [blocked |-> FALSE, remainingAttempts |-> maxAttempts - 1]
    ELSE IF entries[key].count + 1 >= maxAttempts
    THEN [blocked |-> TRUE, remainingAttempts |-> 0]
    ELSE [blocked |-> FALSE,
          remainingAttempts |-> maxAttempts - (entries[key].count + 1)]

\* The largest count the model lets an entry reach.
MaxRecorded == maxAttempts + 1

InitLimiter ==
    /\ pc = "limiter"
    /\ DeriverIdle
    /\ NormalizerIdle
    /\ ReconcilerIdle
    /\ DashboardIdle
    /\ LimiterIdle

checkRateLimit ==
    \E key \in Keys :
        /\ rateLimitInfo' = checkRateLimitResult(rateLimitStore, key, now)
        /\ rateLimitStore' = checkRateLimitStore(rateLimitStore, key, now)
        /\ UNCHANGED <<now, loading, awaited, retryCountdown,
                   nonLimiterVars>>

recordAttempt ==
    \E key \in Keys :
        /\ key \in DOMAIN rateLimitStore =>
              rateLimitStore[key].count < MaxRecorded
        /\ rateLimitInfo' = recordAttemptResult(rateLimitStore, key, now)
        /\ rateLimitStore' = recordAttemptStore(rateLimitStore, key, now)
        /\ UNCHANGED <<now, loading, awaited, retryCountdown,
                   nonLimiterVars>>

clearRateLimit ==
    \E key \in Keys :
        /\ key \in DOMAIN rateLimitStore
        /\ rateLimitStore' = mapDelete(rateLimitStore, key)
        /\ UNCHANGED <<now, rateLimitInfo, loading, awaited, retryCountdown,
                   nonLimiterVars>>

\* The clock advances.
Tick ==
    /\ now < MaxTime
    /\ now' = now + 1
    /\ UNCHANGED <<rateLimitStore, rateLimitInfo, loading, awaited,
                   retryCountdown, nonLimiterVars>>

NextLimiter ==
    \/ checkRateLimit
    \/ recordAttempt
    \/ clearRateLimit
    \/ Tick

SpecLimiter == InitLimiter /\ [][NextLimiter]_vars

----------------------------------------------------------------------------
(* Claims on the rate limiter. *)

\* C29: a key whose entry has just reached maxAttempts is blocked until
\* blockDurationMs after that attempt: as long as that time has not come
\* and the key has not been cleared, checkRateLimit returns blocked with no
\* attempt remaining; and a key that has been cleared is not blocked and
\* has maxAttempts remaining.
C29_BlockedUntilBlockEnds ==
    [][ \A key \in Keys :
          /\ ( /\ key \in DOMAIN rateLimitStore
               /\ rateLimitStore[key].count = maxAttempts
               /\ blockedAt(rateLimitStore, key, now')
               /\ key \in DOMAIN rateLimitStore' )
             => /\ checkRateLimitResult(rateLimitStore', key, now').blocked
                /\ checkRateLimitResult(rateLimitStore', key, now')
                       .remainingAttempts = 0
          /\ key \notin DOMAIN rateLimitStore'
             => checkRateLimitResult(rateLimitStore', key, now')
                   = [blocked |-> FALSE, remainingAttempts |-> maxAttempts]
      ]_vars

----------------------------------------------------------------------------
(* src/components/profile-page.tsx: LoginForm and its use of the limiter,  *)
(* always with the key "login_attempts".                                   *)

rateLimitKey == "login_attempts"

InitLogin ==
    /\ pc = "login"
    /\ rateLimitStore = [key \in {} |-> 0]
    /\ now = 0
    /\ rateLimitInfo = [blocked |-> FALSE, remainingAttempts |-> maxAttempts]
    /\ loading = FALSE
    /\ awaited = 0
    /\ retryCountdown = 0
    /\ DeriverIdle
    /\ NormalizerIdle
    /\ ReconcilerIdle
    /\ DashboardIdle

\* The form mounted (again), with its state as useState sets it: the effect
\* checks the limiter and starts the countdown of a blocked key.  A sign-in
\* that the form before was awaiting goes on without it.
MountLoginForm ==
    /\ loading => awaited < MaxAwaited
    /\ rateLimitInfo' = checkRateLimitResult(rateLimitStore, rateLimitKey, now)
    /\ rateLimitStore' = checkRateLimitStore(rateLimitStore, rateLimitKey, now)
    /\ retryCountdown' = IF rateLimitInfo'.blocked
                         THEN now + rateLimitInfo'.retryAfterMs
                         ELSE 0
    /\ loading' = FALSE
    /\ awaited' = IF loading THEN awaited + 1 ELSE awaited
    /\ UNCHANGED <<now, nonLimiterVars>>

\* onSubmit up to the await of signInWithEmailAndPassword: the button is
\* disabled while the form shows the key blocked or is loading; a blocked
\* key ends the submit, an email that does not pass sanitizeEmail ends it
\* with nothing recorded.
SubmitLogin ==
    /\ ~loading
    /\ ~rateLimitInfo.blocked
    /\ rateLimitStore' = checkRateLimitStore(rateLimitStore, rateLimitKey, now)
    /\ IF checkRateLimitResult(rateLimitStore, rateLimitKey, now).blocked
       THEN /\ rateLimitInfo'
                 = checkRateLimitResult(rateLimitStore, rateLimitKey, now)
            /\ retryCountdown' = now + rateLimitInfo'.retryAfterMs
            /\ UNCHANGED loading
       ELSE /\ loading' \in BOOLEAN
            /\ UNCHANGED <<rateLimitInfo, retryCountdown>>
    /\ UNCHANGED <<now, awaited, nonLimiterVars>>

\* The sign-in resolved: clearRateLimit and the rest of the try block.
SignInSucceeds ==
    /\ loading
    /\ rateLimitStore' = mapDelete(rateLimitStore, rateLimitKey)
    /\ rateLimitInfo' = [blocked |-> FALSE, remainingAttempts |-> maxAttempts]
    /\ loading' = FALSE
    /\ UNCHANGED <<now, awaited, retryCountdown, nonLimiterVars>>

\* The sign-in rejected: recordAttempt and the rest of the catch block.
SignInFails ==
    /\ loading
    /\ rateLimitInfo' = recordAttemptResult(rateLimitStore, rateLimitKey, now)
    /\ rateLimitStore' = recordAttemptStore(rateLimitStore, rateLimitKey, now)
    /\ retryCountdown' = IF rateLimitInfo'.blocked
                         THEN now + blockDurationMs
                         ELSE retryCountdown
    /\ loading' = FALSE
    /\ UNCHANGED <<now, awaited, nonLimiterVars>>

\* The sign-in of a form that has been unmounted resolved: clearRateLimit;
\* the state of the form that is mounted now is not set.
UnmountedSignInSucceeds ==
    /\ awaited > 0
    /\ awaited' = awaited - 1
    /\ rateLimitStore' = mapDelete(rateLimitStore, rateLimitKey)
    /\ UNCHANGED <<now, rateLimitInfo, loading, retryCountdown,
                   nonLimiterVars>>

\* The sign-in of a form that has been unmounted rejected: recordAttempt.
UnmountedSignInFails ==
    /\ awaited > 0
    /\ awaited' = awaited - 1
    /\ rateLimitStore' = recordAttemptStore(rateLimitStore, rateLimitKey, now)
    /\ UNCHANGED <<now, rateLimitInfo, loading, retryCountdown,
                   nonLimiterVars>>

\* The countdown has run out: the limiter is checked again.
CountdownEnds ==
    /\ retryCountdown # 0
    /\ now >= retryCountdown
    /\ rateLimitInfo' = checkRateLimitResult(rateLimitStore, rateLimitKey, now)
    /\ rateLimitStore' = checkRateLimitStore(rateLimitStore, rateLimitKey, now)
    /\ retryCountdown' = 0
    /\ UNCHANGED <<now, loading, awaited, nonLimiterVars>>

NextLogin ==
    \/ MountLoginForm
    \/ SubmitLogin
    \/ SignInSucceeds
    \/ SignInFails
    \/ UnmountedSignInSucceeds
    \/ UnmountedSignInFails
    \/ CountdownEnds
    \/ Tick

SpecLogin == InitLogin /\ [][NextLogin]_vars

\* The attempts recorded for the key in the window that is running.
recordedInWindow(entries, key, t) ==
    IF key \in DOMAIN entries /\ t - entries[key].firstAttempt <= windowMs
    THEN entries[key].count
    ELSE 0

\* C30: whenever the form checks the limiter and the key is not blocked,
\* the remaining attempts that checkRateLimit returns are at least 1, at
\* most maxAttempts, and maxAttempts less the attempts recorded in the
\* running window: maxAttempts once the window of the entry is over.
C30_RemainingAttempts ==
    ~checkRateLimitResult(rateLimitStore, rateLimitKey, now).blocked =>
        /\ checkRateLimitResult(rateLimitStore, rateLimitKey, now)
               .remainingAttempts \in 1..maxAttempts
        /\ checkRateLimitResult(rateLimitStore, rateLimitKey, now)
               .remainingAttempts
             = maxAttempts - recordedInWindow(rateLimitStore, rateLimitKey, now)

====
